---- MODULE Spec2Model ----
(***************************************************************************)
(* Model of homework.py: the fitness-tracker training classes (Training,   *)
(* Running, SportsWalking, Swimming), InfoMessage, read_package and the    *)
(* script's batch loop.                                                    *)
(*                                                                         *)
(* Python numbers are modelled as non-negative IEEE 754 binary64 values:   *)
(* a value is [m |-> mantissa, e |-> exponent] and stands for m * 2^e,     *)
(* where m is either zero or has exactly MantBits bits.  Every arithmetic  *)
(* operation rounds to nearest, ties to even, as the interpreter does.     *)
(* Mantissas do not fit TLC's integers, so they are little-endian          *)
(* sequences of limbs in base LimbBase.  The small Python ints of the      *)
(* sensor packages are exactly representable, and int and float            *)
(* arithmetic agree on them.  Negative values, infinities, NaN, overflow   *)
(* and underflow lie outside the values the model draws.                   *)
(***************************************************************************)
EXTENDS Integers, Sequences, FiniteSets, TLC

(***************************************************************************)
(* Natural numbers of any size, as limbs                                   *)
(***************************************************************************)
LimbBits == 15
LimbBase == 32768
MantBits == 53

RECURSIVE Pow2(_)
Pow2(n) == IF n = 0 THEN 1 ELSE 2 * Pow2(n - 1)

RECURSIVE Zeros(_)
Zeros(n) == IF n = 0 THEN <<>> ELSE <<0>> \o Zeros(n - 1)

RECURSIVE BNorm(_)
BNorm(a) == IF a = <<>> THEN a
            ELSE IF a[Len(a)] = 0 THEN BNorm(SubSeq(a, 1, Len(a) - 1))
            ELSE a

RECURSIVE BFromInt(_)
BFromInt(n) == IF n = 0 THEN <<>>
               ELSE <<n % LimbBase>> \o BFromInt(n \div LimbBase)

RECURSIVE BToInt(_)
BToInt(a) == IF a = <<>> THEN 0 ELSE Head(a) + LimbBase * BToInt(Tail(a))

RECURSIVE BAddC(_, _, _)
BAddC(a, b, c) ==
    IF a = <<>> /\ b = <<>> THEN (IF c = 0 THEN <<>> ELSE <<c>>)
    ELSE LET x == IF a = <<>> THEN 0 ELSE Head(a)
             y == IF b = <<>> THEN 0 ELSE Head(b)
             s == x + y + c
         IN  <<s % LimbBase>>
             \o BAddC(IF a = <<>> THEN a ELSE Tail(a),
                      IF b = <<>> THEN b ELSE Tail(b), s \div LimbBase)

BAdd(a, b) == BAddC(a, b, 0)

\* a - b for a >= b
RECURSIVE BSubC(_, _, _)
BSubC(a, b, c) ==
    IF a = <<>> THEN <<>>
    ELSE LET y == IF b = <<>> THEN 0 ELSE Head(b)
             s == Head(a) - y - c
         IN  <<IF s < 0 THEN s + LimbBase ELSE s>>
             \o BSubC(Tail(a), IF b = <<>> THEN b ELSE Tail(b),
                      IF s < 0 THEN 1 ELSE 0)

BSub(a, b) == BNorm(BSubC(a, b, 0))

\* -1, 0, 1 as a < b, a = b, a > b (both without leading zero limbs)
RECURSIVE BCmpFrom(_, _, _)
BCmpFrom(a, b, i) ==
    IF i = 0 THEN 0
    ELSE IF a[i] < b[i] THEN -1
    ELSE IF a[i] > b[i] THEN 1
    ELSE BCmpFrom(a, b, i - 1)

BCmp(a, b) == IF Len(a) < Len(b) THEN -1
              ELSE IF Len(a) > Len(b) THEN 1
              ELSE BCmpFrom(a, b, Len(a))

\* a * k + c for a limb-sized k
RECURSIVE BMulSmallC(_, _, _)
BMulSmallC(a, k, c) ==
    IF a = <<>> THEN (IF c = 0 THEN <<>> ELSE <<c>>)
    ELSE LET s == Head(a) * k + c
         IN  <<s % LimbBase>> \o BMulSmallC(Tail(a), k, s \div LimbBase)

BMulSmall(a, k) == BNorm(BMulSmallC(a, k, 0))

RECURSIVE BMul(_, _)
BMul(a, b) == IF a = <<>> \/ b = <<>> THEN <<>>
              ELSE BNorm(BAdd(BMulSmall(a, Head(b)), <<0>> \o BMul(a, Tail(b))))

\* <<a \div k, a % k>> for a limb-sized k > 0, from the top limb down
PushDigit(qr, d) == <<qr[1] \o <<d>>, qr[2]>>

RECURSIVE BDivSmallFrom(_, _, _, _)
BDivSmallStep(a, k, i, cur) ==
    PushDigit(BDivSmallFrom(a, k, i - 1, cur % k), cur \div k)

BDivSmallFrom(a, k, i, r) ==
    IF i = 0 THEN <<<<>>, r>>
    ELSE BDivSmallStep(a, k, i, r * LimbBase + a[i])

DropZeros(qr) == <<BNorm(qr[1]), qr[2]>>

BDivSmall(a, k) == DropZeros(BDivSmallFrom(a, k, Len(a), 0))

BShl(a, n) == IF a = <<>> THEN <<>>
              ELSE Zeros(n \div LimbBits) \o BMulSmall(a, Pow2(n % LimbBits))

BShr(a, n) ==
    IF n \div LimbBits >= Len(a) THEN <<>>
    ELSE BDivSmall(SubSeq(a, (n \div LimbBits) + 1, Len(a)), Pow2(n % LimbBits))[1]

\* a % 2^n
BLow(a, n) ==
    IF n \div LimbBits >= Len(a) THEN a
    ELSE BNorm(SubSeq(a, 1, n \div LimbBits)
               \o <<a[(n \div LimbBits) + 1] % Pow2(n % LimbBits)>>)

RECURSIVE IntBitLen(_)
IntBitLen(n) == IF n = 0 THEN 0 ELSE 1 + IntBitLen(n \div 2)

BitLen(a) == IF a = <<>> THEN 0
             ELSE LimbBits * (Len(a) - 1) + IntBitLen(a[Len(a)])

BIsOdd(a) == a # <<>> /\ Head(a) % 2 = 1

\* The largest limb d with b * d <= r, counting down from an estimate
RECURSIVE QFix(_, _, _)
QFix(r, b, d) == IF BCmp(BMulSmall(b, d), r) <= 0 THEN d ELSE QFix(r, b, d - 1)

\* The largest limb d with b * d <= r, for r < b * LimbBase and the top limb
\* of b at least LimbBase / 2: the two top limbs of r over the top limb of
\* b estimate it from above, by at most two.
QEstimate(r, b, est) ==
    QFix(r, b, IF est > LimbBase - 1 THEN LimbBase - 1 ELSE est)

QDigit(r, b) ==
    IF Len(r) < Len(b) THEN 0
    ELSE QEstimate(r, b,
             ((IF Len(r) > Len(b) THEN r[Len(b) + 1] ELSE 0) * LimbBase
              + r[Len(b)]) \div b[Len(b)])

\* <<a \div b, a % b>>, long division from the top limb of a down: cur is
\* the remainder so far with the next limb of a brought down, d its digit
RECURSIVE BDivModFrom(_, _, _, _)
BDivModRest(a, b, i, cur, d) ==
    PushDigit(BDivModFrom(a, b, i - 1, BSub(cur, BMulSmall(b, d))), d)

BDivModDigit(a, b, i, cur) == BDivModRest(a, b, i, cur, QDigit(cur, b))

BDivModFrom(a, b, i, r) ==
    IF i = 0 THEN <<<<>>, r>>
    ELSE BDivModDigit(a, b, i, BNorm(<<a[i]>> \o r))

BDivModTop(a, b) == BDivModFrom(a, b, Len(a), <<>>)

BUnshift(qr, s) == <<BNorm(qr[1]), BShr(qr[2], s)>>

\* Both scaled by 2^s, which brings the top limb of b to full width
BDivModShift(a, b, s) ==
    BUnshift(BDivModTop(BMulSmall(a, Pow2(s)), BMulSmall(b, Pow2(s))), s)

\* <<a \div b, a % b>> for b > 0
BDivMod(a, b) == BDivModShift(a, b, LimbBits - IntBitLen(b[Len(b)]))

(***************************************************************************)
(* binary64 arithmetic, round to nearest, ties to even                     *)
(***************************************************************************)
FZero == [m |-> <<>>, e |-> 0]

IsZero(x) == x.m = <<>>

\* A mantissa that rounding up carried to one bit too many
FRenorm(q, e) ==
    IF BitLen(q) > MantBits THEN [m |-> BShr(q, 1), e |-> e + 1]
    ELSE [m |-> q, e |-> e]

\* q: the bits kept; c: the bits cut off against half a unit (-1, 0, 1);
\* sticky: the exact value lies just above what was cut off
FRoundUp(q, e, c, sticky) ==
    FRenorm(IF c > 0 \/ (c = 0 /\ (sticky \/ BIsOdd(q)))
            THEN BAdd(q, <<1>>) ELSE q, e)

\* The low k bits are cut off
FRoundCut(n, e, sticky, k) ==
    FRoundUp(BShr(n, k), e + k, BCmp(BLow(n, k), BShl(<<1>>, k - 1)), sticky)

FRoundBits(n, e, sticky, bl) ==
    IF bl <= MantBits
    THEN [m |-> BShl(n, MantBits - bl), e |-> e - (MantBits - bl)]
    ELSE FRoundCut(n, e, sticky, bl - MantBits)

\* The float nearest to n * 2^e (or, with sticky, to a value just above
\* it that is closer to n * 2^e than to any other multiple of 2^e).
FRound(n, e, sticky) ==
    IF n = <<>> THEN FZero ELSE FRoundBits(n, e, sticky, BitLen(n))

\* float(n) for a Python int n >= 0
FromInt(n) == FRound(BFromInt(n), 0, FALSE)

FMul(x, y) == IF IsZero(x) \/ IsZero(y) THEN FZero
              ELSE FRound(BMul(x.m, y.m), x.e + y.e, FALSE)

FRoundQuot(qr, e) == FRound(qr[1], e, qr[2] # <<>>)

\* x / y for y # 0 (the callers raise ZeroDivisionError first)
FDiv(x, y) ==
    IF IsZero(x) THEN FZero
    ELSE FRoundQuot(BDivMod(BShl(x.m, MantBits + 3), y.m),
                    x.e - (MantBits + 3) - y.e)

FAddAt(x, y, e) ==
    FRound(BAdd(BShl(x.m, x.e - e), BShl(y.m, y.e - e)), e, FALSE)

FAdd(x, y) ==
    IF IsZero(x) THEN y
    ELSE IF IsZero(y) THEN x
    ELSE FAddAt(x, y, IF x.e < y.e THEN x.e ELSE y.e)

\* The value of the decimal literal n/d (0.65 is Lit(65, 100)): the parser
\* yields the float nearest to the decimal, as the correctly rounded
\* quotient of the two exactly represented integers is.
Lit(n, d) == FDiv(FromInt(n), FromInt(d))

(***************************************************************************)
(* format(x, '.3f'): the decimal digits of x rounded to thousandths, the   *)
(* exact binary value deciding the rounding, ties to even                  *)
(***************************************************************************)
DigitChar == <<"0", "1", "2", "3", "4", "5", "6", "7", "8", "9">>

\* The decimal digits of a natural number, most significant first
RECURSIVE DecDigits(_)
DecPush(qr) == DecDigits(qr[1]) \o <<DigitChar[qr[2] + 1]>>

DecDigits(a) == IF a = <<>> THEN <<>> ELSE DecPush(BDivSmall(a, 10))

RoundHalfEven(q, c) ==
    IF c > 0 \/ (c = 0 /\ BIsOdd(q)) THEN BAdd(q, <<1>>) ELSE q

\* n / 2^k rounded to a natural number
RoundShr(n, k) ==
    RoundHalfEven(BShr(n, k), BCmp(BLow(n, k), BShl(<<1>>, k - 1)))

\* round(x * 1000) as a natural number
Thousandths(x) ==
    IF x.e >= 0 THEN BShl(BMulSmall(x.m, 1000), x.e)
    ELSE RoundShr(BMulSmall(x.m, 1000), -x.e)

Pad4(d) == IF Len(d) < 4 THEN [j \in 1..(4 - Len(d)) |-> "0"] \o d ELSE d

Point3(d) ==
    SubSeq(d, 1, Len(d) - 3) \o <<".">> \o SubSeq(d, Len(d) - 2, Len(d))

Fmt3(x) == Point3(Pad4(DecDigits(Thousandths(x))))

\* x ** 2 is the C library's pow(x, 2.0), which is accurate to under one
\* unit in the last place but not always correctly rounded: either of the
\* two floats that enclose the exact square can come back (only the exact
\* square when it is a float).
FNeighbours(m, e, exact) ==
    IF exact THEN {[m |-> m, e |-> e]}
    ELSE {[m |-> m, e |-> e], FRound(BAdd(m, <<1>>), e, FALSE)}

FBracket(n, e, k) == FNeighbours(BShr(n, k), e + k, BLow(n, k) = <<>>)

FSquareOf(n, e) == FBracket(n, e, BitLen(n) - MantBits)

FSquare(x) ==
    IF IsZero(x) THEN {FZero} ELSE FSquareOf(BMul(x.m, x.m), 2 * x.e)

(***************************************************************************)
(* Class attributes                                                        *)
(***************************************************************************)
LEN_STEP == Lit(65, 100)
M_IN_KM == 1000
HOURS_IN_MINUTES == 60
CALORIES_MEAN_SPEED_MULTIPLIER == 18
CALORIES_MEAN_SPEED_SHIFT == Lit(179, 100)
WEIGHT_COEFF == Lit(35, 1000)
HEIGHT_COEFF == Lit(29, 1000)
KILOM_PER_HOUR_IN_METR_PER_SEC == Lit(278, 1000)
METR_IN_SANTIMETR == 100
SPEED_COEFF == Lit(11, 10)
SUM_SPEED_COEFF == 2
Swimming_LEN_STEP == Lit(138, 100)

(***************************************************************************)
(* Results of calls: a value returned or an exception raised               *)
(***************************************************************************)
None == [cls |-> "NoneType"]
Return(v) == [ok |-> TRUE, val |-> v]
Raise(e) == [ok |-> FALSE, exc |-> e]

(***************************************************************************)
(* Constructors                                                            *)
(***************************************************************************)
Training_init(cls, action, duration, weight) ==
    [cls |-> cls, action |-> action, duration |-> duration, weight |-> weight]

Running_init(action, duration, weight) ==
    Training_init("Running", action, duration, weight)

SportsWalking_init(action, duration, weight, height) ==
    Training_init("SportsWalking", action, duration, weight)
    @@ [height |-> height]

\* Faulty variant: the two pool attributes assigned crosswise
Swimming_init_crossed(action, duration, weight, length_pool, count_pool) ==
    [cls |-> "Swimming", action |-> action, duration |-> duration,
     weight |-> weight, length_pool |-> count_pool, count_pool |-> length_pool]

Swimming_init(action, duration, weight, length_pool, count_pool) ==
    Training_init("Swimming", action, duration, weight)
    @@ [length_pool |-> length_pool, count_pool |-> count_pool]

InfoMessage_init(training_type, duration, distance, speed, calories) ==
    [training_type |-> training_type, duration |-> duration,
     distance |-> distance, speed |-> speed, calories |-> calories]

(***************************************************************************)
(* Methods                                                                 *)
(***************************************************************************)
\* self.LEN_STEP: the attribute of the instance's own class, else Training's
LenStepOf(self) == IF self.cls = "Swimming" THEN Swimming_LEN_STEP ELSE LEN_STEP

\* Faulty variant: a swimmer's distance taken from the pool
get_distance_pool(self) ==
    IF self.cls = "Swimming"
    THEN FDiv(FMul(self.length_pool, self.count_pool), FromInt(M_IN_KM))
    ELSE FDiv(FMul(self.action, LEN_STEP), FromInt(M_IN_KM))

\* Faulty variant: the distance left in metres
get_distance_metres(self) == FMul(self.action, LenStepOf(self))

get_distance(self) ==
    FDiv(FMul(self.action, LenStepOf(self)), FromInt(M_IN_KM))

Training_get_mean_speed(self) ==
    LET distance == get_distance(self)
    IN  IF IsZero(self.duration) THEN Raise("ZeroDivisionError")
        ELSE Return(FDiv(distance, self.duration))

\* Faulty variant: the swimmer's speed from the stroke count, as in the base class
Swimming_get_mean_speed_base(self) ==
    IF IsZero(self.duration) THEN Raise("ZeroDivisionError")
    ELSE Return(FDiv(get_distance(self), self.duration))

Swimming_get_mean_speed(self) ==
    LET km == FDiv(FMul(self.length_pool, self.count_pool), FromInt(M_IN_KM))
    IN  IF IsZero(self.duration) THEN Raise("ZeroDivisionError")
        ELSE Return(FDiv(km, self.duration))

get_mean_speed(self) ==
    IF self.cls = "Swimming" THEN Swimming_get_mean_speed(self)
    ELSE Training_get_mean_speed(self)

\* Faulty variant: a default of zero calories in place of the raise
Training_get_spent_calories_zero(self) == {Return(FZero)}

Training_get_spent_calories(self) == {Raise("NotImplementedError")}

\* Faulty variant: the duration left in hours
Running_calories_hours(self, speed, duration_in_minutes) ==
    IF ~speed.ok THEN {speed}
    ELSE {Return(FMul(
             FDiv(FMul(FAdd(FMul(FromInt(CALORIES_MEAN_SPEED_MULTIPLIER),
                                 speed.val),
                            CALORIES_MEAN_SPEED_SHIFT),
                       self.weight),
                  FromInt(M_IN_KM)),
             self.duration))}

\* The method from its two locals on; an exception raised by
\* get_mean_speed leaves the method at once
Running_calories(self, speed, duration_in_minutes) ==
    IF ~speed.ok THEN {speed}
    ELSE {Return(FMul(
             FDiv(FMul(FAdd(FMul(FromInt(CALORIES_MEAN_SPEED_MULTIPLIER),
                                 speed.val),
                            CALORIES_MEAN_SPEED_SHIFT),
                       self.weight),
                  FromInt(M_IN_KM)),
             duration_in_minutes))}

Running_get_spent_calories(self) ==
    Running_calories(self, get_mean_speed(self),
                     FMul(self.duration, FromInt(HOURS_IN_MINUTES)))

\* calories, from a non-zero height_in_metr and one value sq of
\* speed_in_minute ** 2
SportsWalking_calories(self, duration_in_minutes, sq, height_in_metr) ==
    FMul(FAdd(FMul(WEIGHT_COEFF, self.weight),
              FMul(FMul(FDiv(sq, height_in_metr), HEIGHT_COEFF), self.weight)),
         duration_in_minutes)

SportsWalking_divide(self, duration_in_minutes, squares, height_in_metr) ==
    IF IsZero(height_in_metr) THEN {Raise("ZeroDivisionError")}
    ELSE {Return(SportsWalking_calories(self, duration_in_minutes, sq,
                                        height_in_metr)) : sq \in squares}

\* The method from the call of get_mean_speed on
SportsWalking_locals(self, duration_in_minutes, speed) ==
    IF ~speed.ok THEN {speed}
    ELSE SportsWalking_divide(
             self,
             duration_in_minutes,
             FSquare(FMul(speed.val, KILOM_PER_HOUR_IN_METR_PER_SEC)),
             FDiv(self.height, FromInt(METR_IN_SANTIMETR)))

SportsWalking_get_spent_calories(self) ==
    SportsWalking_locals(self, FMul(self.duration, FromInt(HOURS_IN_MINUTES)),
                         get_mean_speed(self))

Swimming_calories(self, speed) ==
    IF ~speed.ok THEN {speed}
    ELSE {Return(FMul(FMul(FMul(FAdd(speed.val, SPEED_COEFF),
                                FromInt(SUM_SPEED_COEFF)),
                           self.weight),
                      self.duration))}

Swimming_get_spent_calories(self) == Swimming_calories(self, get_mean_speed(self))

\* The possible results: one, but for the two roundings of a square
get_spent_calories(self) ==
    CASE self.cls = "Running" -> Running_get_spent_calories(self)
      [] self.cls = "SportsWalking" -> SportsWalking_get_spent_calories(self)
      [] self.cls = "Swimming" -> Swimming_get_spent_calories(self)
      [] OTHER -> Training_get_spent_calories(self)

\* Faulty variant: distance and speed passed in each other's place
InfoMessage_call_swapped(self, distance, speed, calories) ==
    IF ~speed.ok THEN speed
    ELSE IF ~calories.ok THEN calories
    ELSE Return(InfoMessage_init(self.cls, self.duration, speed.val, distance,
                                 calories.val))

\* InfoMessage(...) with its arguments evaluated left to right: the first
\* exception among them leaves show_training_info
InfoMessage_call(self, distance, speed, calories) ==
    IF ~speed.ok THEN speed
    ELSE IF ~calories.ok THEN calories
    ELSE Return(InfoMessage_init(self.cls, self.duration, distance, speed.val,
                                 calories.val))

show_training_info(self) ==
    {InfoMessage_call(self, get_distance(self), get_mean_speed(self), calories)
        : calories \in get_spent_calories(self)}

\* The message as its pieces in order, numbers as their characters.  The
\* labels stand for the source's Russian ones, which are, in order: type of
\* training, duration (hours), distance (km), mean speed (km/h), kcal spent.
get_message(self) ==
    <<"Tip trenirovki: ", self.training_type, "; ", "Dlitelnost: ">>
    \o Fmt3(self.duration) \o <<" ch.; ", "Distantsiya: ">>
    \o Fmt3(self.distance) \o <<" km; ", "Sr. skorost: ">>
    \o Fmt3(self.speed) \o <<" km/ch; ", "Potracheno kkal: ">>
    \o Fmt3(self.calories) \o <<".">>

(***************************************************************************)
(* read_package                                                            *)
(***************************************************************************)
train_type_dict == [SWM |-> "Swimming", RUN |-> "Running", WLK |-> "SportsWalking"]

UnknownTypeMessage == <<"Peredan neizvestnyi workout_type">>

\* cls(*data): the values bind to the constructor's parameters in order,
\* and too few or too many of them are a TypeError
Construct(cls, data) ==
    CASE cls = "Running" ->
           IF Len(data) # 3 THEN Raise("TypeError")
           ELSE Return(Running_init(data[1], data[2], data[3]))
      [] cls = "SportsWalking" ->
           IF Len(data) # 4 THEN Raise("TypeError")
           ELSE Return(SportsWalking_init(data[1], data[2], data[3], data[4]))
      [] cls = "Swimming" ->
           IF Len(data) # 5 THEN Raise("TypeError")
           ELSE Return(Swimming_init(data[1], data[2], data[3], data[4], data[5]))

\* The body of the try statement
Lookup(workout_type, data) ==
    IF workout_type \notin DOMAIN train_type_dict THEN Raise("KeyError")
    ELSE Construct(train_type_dict[workout_type], data)

\* Faulty variants: the clause written as "except TypeError", and as "except Exception"
Handles_TypeError(exc) == exc = "TypeError"

Handles_Exception(exc) == TRUE

\* Which exceptions the except clause takes
Handles(exc) == exc = "KeyError"

\* Faulty variant: sys.exit(1)
TryExcept_exit1(used_train) ==
    IF used_train.ok THEN [kind |-> "return", val |-> used_train.val]
    ELSE IF used_train.exc = "KeyError"
         THEN [kind |-> "exit", out |-> <<"Peredan neizvestnyi workout_type">>,
               code |-> 1]
         ELSE [kind |-> "raise", exc |-> used_train.exc]

\* kind "return": the record; "exit": sys.exit() after the printed line,
\* exit status 0; "raise": an exception the except clause does not take
TryExcept(used_train) ==
    IF used_train.ok THEN [kind |-> "return", val |-> used_train.val]
    ELSE IF Handles(used_train.exc)
         THEN [kind |-> "exit", out |-> UnknownTypeMessage, code |-> 0]
         ELSE [kind |-> "raise", exc |-> used_train.exc]

read_package(workout_type, data) == TryExcept(Lookup(workout_type, data))

(***************************************************************************)
(* State                                                                   *)
(***************************************************************************)
VARIABLES
    packages,     \* the script's list of (workout_type, data) entries
    idx,          \* the entry the for loop is at (from 1)
    pc,           \* where the process is, and how it ended
    obj,          \* the record in hand (training), or None
    info,         \* the InfoMessage in hand, or None
    stdout,       \* the lines printed so far
    exit_status,  \* the process's exit status; StillRunning until it ends
    error,        \* the exception that ended the process, or "" for none
    req,          \* the arguments of the client's constructing call
    op,           \* the call the client made last
    ret           \* what that call returned or raised

vars == <<packages, idx, pc, obj, info, stdout, exit_status, error, req, op, ret>>

\* No exit status yet: the process has not ended
StillRunning == -1

\* An exception nobody catches ends the process with a traceback, status 1
Uncaught(exc) ==
    /\ pc' = "raised"
    /\ error' = exc
    /\ exit_status' = 1

\* sys.exit(): SystemExit with no code, which no caller here catches, ends
\* the process with status 0
SysExit(code) ==
    /\ pc' = "exited"
    /\ exit_status' = code

(***************************************************************************)
(* The script: for workout_type, data in packages: read_package, main      *)
(***************************************************************************)
MaxPackages == 2

Floats(data) == [j \in 1..Len(data) |-> FromInt(data[j])]

Package(workout_type, data) == [workout_type |-> workout_type, data |-> Floats(data)]

\* The four packages of the script, and three that cannot be computed: a
\* value short, a zero duration, and a zero height
PackageChoices ==
    { Package("SWM", <<720, 1, 80, 25, 40>>),
      Package("RUN", <<15000, 1, 75>>),
      Package("WLK", <<9000, 1, 75, 180>>),
      Package("QWE", <<9000, 1, 75, 180>>),
      Package("RUN", <<15000, 1>>),
      Package("SWM", <<720, 0, 80, 25, 40>>),
      Package("WLK", <<9000, 1, 75, 0>>) }

PackageLists == UNION {[1..n -> PackageChoices] : n \in 0..MaxPackages}

Init ==
    /\ packages \in PackageLists
    /\ idx = 1
    /\ pc = "read"
    /\ obj = None
    /\ info = None
    /\ stdout = <<>>
    /\ exit_status = StillRunning
    /\ error = ""
    /\ req = None
    /\ op = "none"
    /\ ret = None

\* training = read_package(workout_type, data)
ReadPackage ==
    /\ pc = "read"
    /\ idx <= Len(packages)
    /\ LET r == read_package(packages[idx].workout_type, packages[idx].data)
       IN  \/ /\ r.kind = "return"
              /\ obj' = r.val
              /\ pc' = "main"
              /\ UNCHANGED <<stdout, exit_status, error>>
           \/ /\ r.kind = "exit"
              /\ stdout' = stdout \o <<r.out>>
              /\ SysExit(r.code)
              /\ UNCHANGED <<obj, error>>
           \/ /\ r.kind = "raise"
              /\ Uncaught(r.exc)
              /\ UNCHANGED <<obj, stdout>>
    /\ UNCHANGED <<packages, idx, info, req, op, ret>>

\* main(training): info = training.show_training_info();
\* print(info.get_message()); then the loop moves on
Main ==
    /\ pc = "main"
    /\ \E r \in show_training_info(obj) :
           \/ /\ r.ok
              /\ info' = r.val
              /\ stdout' = stdout \o <<get_message(r.val)>>
              /\ idx' = idx + 1
              /\ pc' = "read"
              /\ UNCHANGED <<exit_status, error>>
           \/ /\ ~r.ok
              /\ Uncaught(r.exc)
              /\ UNCHANGED <<info, stdout, idx>>
    /\ UNCHANGED <<packages, obj, req, op, ret>>

\* The list is exhausted: the script ends
Finish ==
    /\ pc = "read"
    /\ idx > Len(packages)
    /\ pc' = "done"
    /\ exit_status' = 0
    /\ UNCHANGED <<packages, idx, obj, info, stdout, error, req, op, ret>>

Next == ReadPackage \/ Main \/ Finish

Spec == Init /\ [][Next]_vars

(***************************************************************************)
(* A client of the module: it builds one record, by read_package or as a   *)
(* plain Training, and calls its methods in any order, any number of times *)
(***************************************************************************)
MaxData == 6

WorkoutTypes == {"SWM", "RUN", "WLK", "QWE", "run"}

\* The values a client passes at each position of data
ValuesAt(j) ==
    CASE j = 1 -> {FromInt(3), FromInt(720), FromInt(15000)}
      [] j = 2 -> {FromInt(0), FromInt(1), FromInt(3), Lit(15, 10)}
      [] j = 3 -> {FromInt(75)}
      [] j = 4 -> {FromInt(0), FromInt(25), FromInt(180)}
      [] j = 5 -> {FromInt(40), FromInt(41)}
      [] OTHER -> {FromInt(1)}

\* The lists of exactly n values
RECURSIVE DataOfLen(_)
DataOfLen(n) ==
    IF n = 0 THEN {<<>>}
    ELSE {Append(d, v) : d \in DataOfLen(n - 1), v \in ValuesAt(n)}

DataLists == UNION {DataOfLen(n) : n \in 0..MaxData}

InitClient ==
    /\ packages = <<>>
    /\ idx = 1
    /\ pc = "new"
    /\ obj = None
    /\ info = None
    /\ stdout = <<>>
    /\ exit_status = StillRunning
    /\ error = ""
    /\ req = None
    /\ op = "none"
    /\ ret = None

CallReadPackage ==
    /\ pc = "new"
    /\ \E workout_type \in WorkoutTypes, data \in DataLists :
          /\ req' = [workout_type |-> workout_type, data |-> data]
          /\ LET r == read_package(workout_type, data)
             IN  \/ /\ r.kind = "return"
                    /\ obj' = r.val
                    /\ ret' = Return(r.val)
                    /\ pc' = "ready"
                    /\ UNCHANGED <<stdout, exit_status, error>>
                 \/ /\ r.kind = "exit"
                    /\ stdout' = stdout \o <<r.out>>
                    /\ SysExit(r.code)
                    /\ UNCHANGED <<obj, ret, error>>
                 \/ /\ r.kind = "raise"
                    /\ ret' = Raise(r.exc)
                    /\ Uncaught(r.exc)
                    /\ UNCHANGED <<obj, stdout>>
    /\ op' = "read_package"
    /\ UNCHANGED <<packages, idx, info>>

\* Training(action, duration, weight): the base class itself
CallTraining ==
    /\ pc = "new"
    /\ \E action \in ValuesAt(1), duration \in ValuesAt(2), weight \in ValuesAt(3) :
          /\ req' = [workout_type |-> "Training", data |-> <<action, duration, weight>>]
          /\ obj' = Training_init("Training", action, duration, weight)
    /\ ret' = Return(obj')
    /\ pc' = "ready"
    /\ op' = "Training"
    /\ UNCHANGED <<packages, idx, info, stdout, exit_status, error>>

\* The client's call returns r, or r's exception ends the process
Returns(name, r) ==
    /\ op' = name
    /\ ret' = r
    /\ IF r.ok THEN UNCHANGED <<pc, exit_status, error>> ELSE Uncaught(r.exc)

CallGetDistance ==
    /\ pc = "ready"
    /\ Returns("get_distance", Return(get_distance(obj)))
    /\ UNCHANGED <<packages, idx, obj, info, stdout, req>>

CallGetMeanSpeed ==
    /\ pc = "ready"
    /\ Returns("get_mean_speed", get_mean_speed(obj))
    /\ UNCHANGED <<packages, idx, obj, info, stdout, req>>

CallGetSpentCalories ==
    /\ pc = "ready"
    /\ \E r \in get_spent_calories(obj) : Returns("get_spent_calories", r)
    /\ UNCHANGED <<packages, idx, obj, info, stdout, req>>

CallShowTrainingInfo ==
    /\ pc = "ready"
    /\ \E r \in show_training_info(obj) :
          /\ Returns("show_training_info", r)
          /\ info' = IF r.ok THEN r.val ELSE info
    /\ UNCHANGED <<packages, idx, obj, stdout, req>>

CallGetMessage ==
    /\ pc = "ready"
    /\ info # None
    /\ Returns("get_message", Return(get_message(info)))
    /\ UNCHANGED <<packages, idx, obj, info, stdout, req>>

NextClient ==
    \/ CallReadPackage
    \/ CallTraining
    \/ CallGetDistance
    \/ CallGetMeanSpeed
    \/ CallGetSpentCalories
    \/ CallShowTrainingInfo
    \/ CallGetMessage

SpecClient == InitClient /\ [][NextClient]_vars

(***************************************************************************)
(* What the claims speak of, stated apart from the code                    *)
(***************************************************************************)
KnownTypes == {"SWM", "RUN", "WLK"}

ArityOf == [RUN |-> 3, WLK |-> 4, SWM |-> 5]

ClassOf == [RUN |-> "Running", WLK |-> "SportsWalking", SWM |-> "Swimming"]

Variants == {"Running", "SportsWalking", "Swimming"}

Diagnostic == <<"Peredan neizvestnyi workout_type">>

\* The stored fields of a record, in the order of its constructor
FieldsInOrder(r) ==
    <<r.action, r.duration, r.weight>>
    \o (CASE r.cls = "SportsWalking" -> <<r.height>>
          [] r.cls = "Swimming" -> <<r.length_pool, r.count_pool>>
          [] OTHER -> <<>>)

\* C1: for a workout code that is none of SWM, RUN, WLK, whatever the
\* argument list, read_package prints the diagnostic (once, and nothing
\* else), returns no record and ends the run with exit status 0; no
\* exception reaches the caller.
C1_UnknownCodeExitsCleanly ==
    (op = "read_package" /\ req.workout_type \notin KnownTypes)
        => /\ pc = "exited"
           /\ exit_status = 0
           /\ stdout = <<Diagnostic>>
           /\ obj = None
           /\ ret = None
           /\ error = ""

C1_Witness ==
    /\ op = "read_package"
    /\ req.workout_type = "QWE"
    /\ Len(req.data) = 5
    /\ pc = "exited"

\* C10: for a known code with a number of values other than the variant's
\* arity, read_package returns no record, prints no diagnostic and does not
\* take the clean exit: the TypeError reaches the caller unhandled.
C10_ArityErrorPropagates ==
    (/\ op = "read_package"
     /\ req.workout_type \in KnownTypes
     /\ Len(req.data) # ArityOf[req.workout_type])
        => /\ pc = "raised"
           /\ error = "TypeError"
           /\ ret = Raise("TypeError")
           /\ obj = None
           /\ stdout = <<>>
           /\ exit_status # 0

C10_Witness ==
    /\ op = "read_package"
    /\ req.workout_type = "SWM"
    /\ Len(req.data) = 4
    /\ pc = "raised"

\* C7: for a known code with as many values as the variant's arity,
\* read_package returns a record of the mapped variant whose stored fields,
\* in constructor order, are exactly the supplied values, and they stay so
\* after any sequence of method calls.
C7_FieldsAreTheSuppliedValues ==
    (/\ req # None
     /\ req.workout_type \in KnownTypes
     /\ Len(req.data) = ArityOf[req.workout_type])
        => /\ obj.cls = ClassOf[req.workout_type]
           /\ FieldsInOrder(obj) = req.data
           /\ op = "read_package" => (pc = "ready" /\ ret = Return(obj))

C7_Witness ==
    /\ op = "get_message"
    /\ req.workout_type = "SWM"
    /\ obj.length_pool = FromInt(25)
    /\ obj.count_pool = FromInt(41)

\* C9: get_spent_calories on a record of the base Training class, called
\* directly or through show_training_info, ends in an exception and never
\* returns a number or an InfoMessage, whatever the action, duration and
\* weight; no variant ever raises the base class's NotImplementedError.
C9_BaseCaloriesAlwaysRaise ==
    /\ (obj.cls = "Training" /\ op \in {"get_spent_calories", "show_training_info"})
          => /\ pc = "raised"
             /\ ~ret.ok
             /\ info = None
             /\ error \in {"NotImplementedError", "ZeroDivisionError"}
             /\ op = "get_spent_calories" => error = "NotImplementedError"
             /\ error = "ZeroDivisionError" => IsZero(obj.duration)
    /\ obj.cls \in Variants => error # "NotImplementedError"

C9_Witness ==
    /\ obj.cls = "Training"
    /\ op = "show_training_info"
    /\ error = "NotImplementedError"

(***************************************************************************)
(* The formulas of the specification, written out with its own numbers     *)
(***************************************************************************)
Thousand == FromInt(1000)

\* action * stepLength / 1000
RefDistance(r) ==
    FDiv(FMul(r.action, IF r.cls = "Swimming" THEN Lit(138, 100) ELSE Lit(65, 100)),
         Thousand)

\* distance / duration; for swimming (poolLength * poolLaps / 1000) / duration
RefMeanSpeed(r) ==
    IF r.cls = "Swimming"
    THEN FDiv(FDiv(FMul(r.length_pool, r.count_pool), Thousand), r.duration)
    ELSE FDiv(RefDistance(r), r.duration)

\* (18 * meanSpeed + 1.79) * weight / 1000 * (duration * 60)
RefRunningCalories(r, meanSpeed) ==
    FMul(FDiv(FMul(FAdd(FMul(FromInt(18), meanSpeed), Lit(179, 100)), r.weight),
              Thousand),
         FMul(r.duration, FromInt(60)))

\* (0.035 * weight + (meanSpeed * 0.278)^2 / (height / 100) * 0.029 * weight)
\* * (duration * 60), for each value the square can take
RefWalkingCalories(r, meanSpeed) ==
    {FMul(FAdd(FMul(Lit(35, 1000), r.weight),
               FMul(FMul(FDiv(sq, FDiv(r.height, FromInt(100))), Lit(29, 1000)),
                    r.weight)),
          FMul(r.duration, FromInt(60)))
     : sq \in FSquare(FMul(meanSpeed, Lit(278, 1000)))}

\* (meanSpeed + 1.1) * 2 * weight * duration
RefSwimmingCalories(r, meanSpeed) ==
    FMul(FMul(FMul(FAdd(meanSpeed, Lit(11, 10)), FromInt(2)), r.weight), r.duration)

RefCalories(r, meanSpeed) ==
    CASE r.cls = "Running" -> {RefRunningCalories(r, meanSpeed)}
      [] r.cls = "SportsWalking" -> RefWalkingCalories(r, meanSpeed)
      [] r.cls = "Swimming" -> {RefSwimmingCalories(r, meanSpeed)}

\* The record's formulas apply: a variant, duration > 0, and height > 0
\* for walking
Measurable(r) ==
    /\ r.cls \in Variants
    /\ ~IsZero(r.duration)
    /\ r.cls = "SportsWalking" => ~IsZero(r.height)

\* |x - y| <= 2^(y.e): x is within one unit in the last place of y
WithinOneUlpAt(x, y, e) ==
    \/ BCmp(BShl(x.m, x.e - e), BAdd(BShl(y.m, y.e - e), BShl(<<1>>, y.e - e))) <= 0
       /\ BCmp(BShl(y.m, y.e - e), BShl(x.m, x.e - e)) <= 0
    \/ BCmp(BShl(y.m, y.e - e), BAdd(BShl(x.m, x.e - e), BShl(<<1>>, y.e - e))) <= 0
       /\ BCmp(BShl(x.m, x.e - e), BShl(y.m, y.e - e)) <= 0

WithinOneUlp(x, y) ==
    IF IsZero(x) \/ IsZero(y) THEN x = y
    ELSE WithinOneUlpAt(x, y, IF x.e < y.e THEN x.e ELSE y.e)

\* C3: for every record of a variant with duration > 0 (and height > 0 for
\* walking), get_spent_calories returns the value of the variant's
\* reference formula at the variant's own get_mean_speed().
C3_CaloriesAreTheReferenceFormula ==
    (op = "get_spent_calories" /\ Measurable(obj))
        => /\ ret.ok
           /\ pc = "ready"
           /\ ret.val \in RefCalories(obj, get_mean_speed(obj).val)

C3_Witness ==
    /\ op = "get_spent_calories"
    /\ obj.cls = "SportsWalking"
    /\ obj.duration = FromInt(3)
    /\ obj.height = FromInt(180)
    /\ ret.ok

\* C4 as claimed: for Running and SportsWalking get_mean_speed returns
\* get_distance() / duration and mean speed * duration = distance; for
\* Swimming it returns (length_pool * count_pool / 1000) / duration.
C4_SpeedTimesDurationIsDistance ==
    (op = "get_mean_speed" /\ Measurable(obj))
        => /\ ret = Return(RefMeanSpeed(obj))
           /\ obj.cls # "Swimming" => FMul(ret.val, obj.duration) = get_distance(obj)

\* C4, amended: for every record with duration > 0, get_mean_speed returns
\* the float quotient get_distance() / duration for Running and
\* SportsWalking, so that mean speed * duration is within one unit in the
\* last place of the distance, and is the distance itself when duration is
\* 1; for Swimming it returns (length_pool * count_pool / 1000) / duration,
\* whatever the action count.
C4_MeanSpeedIsTheQuotient ==
    (op = "get_mean_speed" /\ Measurable(obj))
        => /\ ret = Return(RefMeanSpeed(obj))
           /\ pc = "ready"
           /\ obj.cls # "Swimming"
                => /\ ret.val = FDiv(get_distance(obj), obj.duration)
                   /\ WithinOneUlp(FMul(ret.val, obj.duration), get_distance(obj))
                   /\ obj.duration = FromInt(1)
                        => FMul(ret.val, obj.duration) = get_distance(obj)

C4_Witness ==
    /\ op = "get_mean_speed"
    /\ obj.cls = "Running"
    /\ obj.action = FromInt(3)
    /\ obj.duration = FromInt(3)
    /\ ret.ok
    /\ FMul(ret.val, obj.duration) # get_distance(obj)

\* C5: get_distance returns action * 1.38 / 1000 for every Swimming record,
\* whatever length_pool and count_pool are (the pool's length times the
\* laps is never used), and action * 0.65 / 1000 for Running and
\* SportsWalking.
C5_DistanceIsStepsTimesStepLength ==
    (op = "get_distance" /\ obj.cls \in Variants)
        => /\ ret = Return(RefDistance(obj))
           /\ pc = "ready"

C5_Witness ==
    /\ op = "get_distance"
    /\ obj.cls = "Swimming"
    /\ obj.length_pool = FromInt(25)
    /\ obj.count_pool = FromInt(41)
    /\ ret.val # FDiv(FMul(obj.length_pool, obj.count_pool), Thousand)

(***************************************************************************)
(* Reading a printed report line                                           *)
(***************************************************************************)
DigitChars == {"0", "1", "2", "3", "4", "5", "6", "7", "8", "9"}

\* Digits, a point, and exactly three digits after it
ThreeDecimals(f) ==
    /\ Len(f) >= 5
    /\ f[Len(f) - 3] = "."
    /\ \A j \in (1..Len(f)) \ {Len(f) - 3} : f[j] \in DigitChars

Has(line, piece) == \E j \in 1..Len(line) : line[j] = piece

Pos(line, piece) == CHOOSE j \in 1..Len(line) : line[j] = piece

Between(line, from, to) == SubSeq(line, Pos(line, from) + 1, Pos(line, to) - 1)

TypeShown(line) == Between(line, "Tip trenirovki: ", "; ")

DurationShown(line) == Between(line, "Dlitelnost: ", " ch.; ")

DistanceShown(line) == Between(line, "Distantsiya: ", " km; ")

SpeedShown(line) == Between(line, "Sr. skorost: ", " km/ch; ")

CaloriesShown(line) ==
    SubSeq(line, Pos(line, "Potracheno kkal: ") + 1, Len(line) - 1)

\* The five fields, each after its label, in the template's order, and
\* nothing else
WellFormedReport(line) ==
    /\ \A piece \in {"Tip trenirovki: ", "; ", "Dlitelnost: ", " ch.; ",
                     "Distantsiya: ", " km; ", "Sr. skorost: ", " km/ch; ",
                     "Potracheno kkal: "} : Has(line, piece)
    /\ Pos(line, "Tip trenirovki: ") = 1
    /\ Pos(line, "; ") = 3
    /\ Pos(line, "Dlitelnost: ") = 4
    /\ Pos(line, "Distantsiya: ") = Pos(line, " ch.; ") + 1
    /\ Pos(line, "Sr. skorost: ") = Pos(line, " km; ") + 1
    /\ Pos(line, "Potracheno kkal: ") = Pos(line, " km/ch; ") + 1
    /\ line[Len(line)] = "."
    /\ ThreeDecimals(DurationShown(line))
    /\ ThreeDecimals(DistanceShown(line))
    /\ ThreeDecimals(SpeedShown(line))
    /\ ThreeDecimals(CaloriesShown(line))

\* C6: the message of show_training_info().get_message() carries five
\* fields in the order type name, duration, get_distance(),
\* get_mean_speed(), get_spent_calories(), each number with exactly three
\* decimals; the InfoMessage holds the same five values in between.
C6_MessageCarriesTheFiveFields ==
    /\ (op = "show_training_info" /\ ret.ok)
          => /\ info = ret.val
             /\ info.training_type = obj.cls
             /\ info.duration = obj.duration
             /\ info.distance = get_distance(obj)
             /\ Return(info.speed) = get_mean_speed(obj)
             /\ Return(info.calories) \in get_spent_calories(obj)
    /\ op = "get_message"
          => /\ ret.ok
             /\ WellFormedReport(ret.val)
             /\ TypeShown(ret.val) = <<obj.cls>>
             /\ DurationShown(ret.val) = Fmt3(obj.duration)
             /\ DistanceShown(ret.val) = Fmt3(get_distance(obj))
             /\ SpeedShown(ret.val) = Fmt3(get_mean_speed(obj).val)
             /\ CaloriesShown(ret.val) = Fmt3(info.calories)
             /\ Return(info.calories) \in get_spent_calories(obj)

C6_Witness ==
    /\ op = "get_message"
    /\ obj.cls = "Swimming"
    /\ obj.duration = FromInt(3)
    /\ DistanceShown(ret.val) # SpeedShown(ret.val)

(***************************************************************************)
(* The batch                                                               *)
(***************************************************************************)
RunPackage == Package("RUN", <<15000, 1, 75>>)

\* C8 as claimed: the report of the running record 15000, 1, 75 shows
\* distance 9.750, mean speed 9.750 and calories of about 801.21.
C8_RunningReportShows801 ==
    \A j \in 1..Len(stdout) :
        packages[j] = RunPackage
            => /\ DistanceShown(stdout[j]) = <<"9", ".", "7", "5", "0">>
               /\ SpeedShown(stdout[j]) = <<"9", ".", "7", "5", "0">>
               /\ SubSeq(CaloriesShown(stdout[j]), 1, 6)
                      = <<"8", "0", "1", ".", "2", "1">>

\* C8, amended: the report of the running record 15000, 1, 75 shows
\* distance 9.750, mean speed 9.750 and calories
\* (18 * 9.75 + 1.79) * 75 / 1000 * 60, which is 797.805.
C8_RunningReportShows797 ==
    \A j \in 1..Len(stdout) :
        packages[j] = RunPackage
            => /\ WellFormedReport(stdout[j])
               /\ TypeShown(stdout[j]) = <<"Running">>
               /\ DurationShown(stdout[j]) = <<"1", ".", "0", "0", "0">>
               /\ DistanceShown(stdout[j]) = <<"9", ".", "7", "5", "0">>
               /\ SpeedShown(stdout[j]) = <<"9", ".", "7", "5", "0">>
               /\ CaloriesShown(stdout[j]) = <<"7", "9", "7", ".", "8", "0", "5">>
               /\ CaloriesShown(stdout[j])
                      = Fmt3(RefRunningCalories(
                                 [weight |-> FromInt(75), duration |-> FromInt(1)],
                                 Lit(975, 100)))

C8_Witness ==
    /\ Len(packages) = 2
    /\ packages[2] = RunPackage
    /\ Len(stdout) = 2
    /\ pc = "done"

Known(p) == p.workout_type \in KnownTypes

\* The entry yields a report: a known code, as many values as the
\* variant's arity, and a record the formulas apply to
Computable(p) ==
    /\ Known(p)
    /\ Len(p.data) = ArityOf[p.workout_type]
    /\ ~IsZero(p.data[2])
    /\ p.workout_type = "WLK" => ~IsZero(p.data[4])

\* The first entry with an unknown code, or one past the list
FirstUnknown ==
    IF \A j \in 1..Len(packages) : Known(packages[j]) THEN Len(packages) + 1
    ELSE CHOOSE j \in 1..Len(packages) :
             /\ ~Known(packages[j])
             /\ \A k \in 1..(j - 1) : Known(packages[k])

\* The first entry that yields no report, or one past the list
FirstStop ==
    IF \A j \in 1..Len(packages) : Computable(packages[j]) THEN Len(packages) + 1
    ELSE CHOOSE j \in 1..Len(packages) :
             /\ ~Computable(packages[j])
             /\ \A k \in 1..(j - 1) : Computable(packages[k])

\* The report lines an entry can get
ReportLines(p) ==
    IF ~Computable(p) THEN {}
    ELSE {get_message(r.val) :
             r \in show_training_info(
                       Construct(ClassOf[p.workout_type], p.data).val)}

Ended == pc \in {"done", "exited", "raised"}

DiagnosticsPrinted == Cardinality({j \in 1..Len(stdout) : stdout[j] = Diagnostic})

\* C2 as claimed: for any list, one report line for each entry before the
\* first unknown code, in order; at the first unknown code no report, the
\* diagnostic once, and nothing after; with no unknown code, a report for
\* every entry and no diagnostic.
C2_OneReportPerEntryBeforeUnknown ==
    Ended
        => /\ \A j \in 1..(FirstUnknown - 1) :
                  j <= Len(stdout) /\ stdout[j] \in ReportLines(packages[j])
           /\ IF FirstUnknown <= Len(packages)
              THEN /\ Len(stdout) = FirstUnknown
                   /\ stdout[FirstUnknown] = Diagnostic
                   /\ DiagnosticsPrinted = 1
              ELSE /\ Len(stdout) = Len(packages)
                   /\ DiagnosticsPrinted = 0

\* C2, amended: one report line, in order, for each entry before the first
\* entry that is an unknown code or cannot be computed (wrong number of
\* values, zero duration, zero height).  If that entry is an unknown code,
\* no report is made for it, the diagnostic is printed once and the run
\* ends with status 0; if it cannot be computed, its error ends the run
\* with neither report nor diagnostic.  No later entry is read or
\* reported.  If there is no such entry, every entry gets one report line
\* and no diagnostic is printed.
C2_OneReportPerEntryBeforeStop ==
    /\ idx <= FirstStop
    /\ Len(stdout) <= FirstStop
    /\ \A j \in 1..Len(stdout) :
           IF j < FirstStop THEN stdout[j] \in ReportLines(packages[j])
           ELSE stdout[j] = Diagnostic /\ ~Known(packages[j])
    /\ Ended
        => /\ idx = FirstStop
           /\ \A j \in 1..(FirstStop - 1) : j <= Len(stdout)
           /\ IF FirstStop > Len(packages)
              THEN pc = "done" /\ exit_status = 0 /\ DiagnosticsPrinted = 0
                   /\ Len(stdout) = Len(packages)
              ELSE IF ~Known(packages[FirstStop])
              THEN pc = "exited" /\ exit_status = 0 /\ DiagnosticsPrinted = 1
                   /\ Len(stdout) = FirstStop
              ELSE pc = "raised" /\ exit_status = 1 /\ DiagnosticsPrinted = 0
                   /\ Len(stdout) = FirstStop - 1

C2_Witness ==
    /\ Len(packages) = 2
    /\ packages[1].workout_type = "RUN"
    /\ Len(packages[1].data) = 3
    /\ packages[2].workout_type = "QWE"
    /\ pc = "exited"
    /\ Len(stdout) = 2

====
